---- MODULE Spec2Model ----
(***************************************************************************)
(* Timer engine of StarryOS (api/src/file/timerfd.rs and the syscall glue  *)
(* in api/src/syscall/fs/timerfd.rs).                                      *)
(*                                                                         *)
(* One TimerFd object, its background task (timer_loop), one task calling  *)
(* set_time, get_time or poll, one task calling read, and the clock.       *)
(* Times and durations are in nanoseconds.                                 *)
(*                                                                         *)
(* The multiplexed wait of api/src/syscall/io_mpx/select.rs (do_select):   *)
(* one task inside one call, the descriptor table, the pollable objects    *)
(* behind the descriptors, the caller's descriptor sets in user memory and *)
(* its blocked-signal mask.  Specification SelSpec.                        *)
(***************************************************************************)
EXTENDS Integers, FiniteSets, Sequences, TLC

VARIABLES
    clockid,        \* TimerFd.clockid, fixed at creation
    mono,           \* axhal monotonic_time(), nanoseconds since boot
    state,          \* TimerFd.state : TimerState {ticks, interval, next_expiration}
    non_blocking,   \* TimerFd.non_blocking
    loop,           \* the background task: position and locals of timer_loop
    arm,            \* the task calling set_time, get_time or poll
    rd,             \* the task inside read (block_on(poll_io(..)))
    owed,           \* history: expirations recorded minus ticks handed to reads
    held,           \* the locks held: pairs <<task, lock>>
    sel,            \* the task inside do_select: position, arguments and locals
    user,           \* the caller's readfds, writefds, exceptfds in user memory
    fd_table,       \* FD_TABLE: the descriptor numbers that resolve to an object
    ready,          \* what each object's poll() reports now
    blocked,        \* the calling task's blocked-signal mask
    sigpending,     \* the signals sent to the calling task and not yet handled
    ra              \* a file's ReadaheadState

\* The variables of the multiplexed wait, of the timer and of the readahead.
svars == <<sel, user, fd_table, ready, blocked, sigpending>>
tvars == <<clockid, state, non_blocking, loop, arm, rd, owed>>
rvars == <<ra>>
vars == <<clockid, mono, state, non_blocking, loop, arm, rd, owed, held, svars, rvars>>

---------------------------------------------------------------------------
(* Bounds of the model *)

\* Largest reading of the monotonic clock, in nanoseconds.
MaxNsec == 1
\* Largest tv_nsec a caller passes in an itimerspec.
MaxDur == 1
\* set_time is called only while fewer expirations than this are pending.
MaxTicks == 2
\* wall_time() - monotonic_time(): the boot epoch of the machine.
BootEpoch == 1

\* The longest run of sequential reads.
MaxSeqCount == 8

\* A page far from every window.
FarPage == 400

---------------------------------------------------------------------------
(* Program constants *)

NANOS_PER_SEC == 1000000000
CLOCK_REALTIME == 0
CLOCK_MONOTONIC == 1

\* Option<TimeValue>::None
None == -1

\* Clock selectors given to timerfd_create.
ClockIds == {CLOCK_REALTIME, CLOCK_MONOTONIC}

SecValues == {0}
NsecValues == 0..MaxNsec

\* linux timespec / itimerspec values a caller passes
Timespecs == [tv_sec : SecValues, tv_nsec : 0..MaxDur]
ZeroTimespec == [tv_sec |-> 0, tv_nsec |-> 0]
ZeroItimerspec == [it_interval |-> ZeroTimespec, it_value |-> ZeroTimespec]

\* flags of timerfd_settime: 0 and TFD_TIMER_ABSTIME (bit 0)
FlagValues == {0, 1}

\* Sizes of the buffer handed to read
BufLens == {7, 8}

\* Readings the monotonic clock takes in the model
TimePoints == {s * NANOS_PER_SEC + n : s \in SecValues, n \in NsecValues}

---------------------------------------------------------------------------
(* Values of the multiplexed wait *)

\* linux __FD_SETSIZE: the capacity of an fd_set bitmap
FD_SETSIZE == 1024

\* Descriptor numbers with a bit set in the caller's sets or an object behind them
Fds == {0, 1}

\* nfds values a caller passes: none, one, all descriptors, and beyond capacity
NfdsValues == {0, 1, FD_SETSIZE, FD_SETSIZE + 1}

\* IoEvents::IN, OUT, ERR: the conditions of readfds, writefds, exceptfds
Kinds == {"IN", "OUT", "ERR"}

\* A user pointer to an fd_set: null, or the descriptor numbers whose bit is set
NullFdSet == [null |-> TRUE, bits |-> {}]
FdSetOf(bits) == [null |-> FALSE, bits |-> bits]
UserFdSets == {NullFdSet} \cup {FdSetOf(b) : b \in SUBSET Fds}

\* The sets a caller passes: any readfds; writefds with no bit, the last bit
\* or every bit; exceptfds null or with the first bit.
UserMemories ==
    [readfds : UserFdSets,
     writefds : {FdSetOf({}), FdSetOf({1}), FdSetOf(Fds)},
     exceptfds : {NullFdSet, FdSetOf({0})}]

\* What the poll of an object reports: nothing, one condition, or two.
ReadyValues == {{}, {"IN"}, {"OUT", "ERR"}}

\* Descriptor tables: descriptor 0 is open, descriptor 1 open or closed.
FdTables == {{0}, Fds}

\* Signals and signal masks
Sigs == {"SIGUSR1"}
NoMask == [some |-> FALSE, set |-> {}]
SomeMask(set) == [some |-> TRUE, set |-> set]

\* The sigmask argument of pselect6: null, or a SignalSetWithSize
NullSigmask == [null |-> TRUE, size_ok |-> TRUE, set |-> {}]
SigmaskArgs == {NullSigmask} \cup
               {[null |-> FALSE, size_ok |-> ok, set |-> {}] : ok \in BOOLEAN}

\* check_sigset_size: the declared size is the size of a signal set
check_sigset_size(sigmask) == sigmask.size_ok

\* AxResult<isize>
NoResult == [err |-> "none", val |-> 0]
Ok(n) == [err |-> "Ok", val |-> n]
Err(e) == [err |-> e, val |-> 0]

\* timeout: None or a duration
Timeouts == {None} \cup (0..MaxDur)

---------------------------------------------------------------------------
(* core::time::Duration and TimeValue arithmetic *)

Duration_new(secs, nanos) == secs * NANOS_PER_SEC + nanos
as_secs(d) == d \div NANOS_PER_SEC
subsec_nanos(d) == d % NANOS_PER_SEC
saturating_sub(a, b) == IF a > b THEN a - b ELSE 0
to_timespec(d) == [tv_sec |-> as_secs(d), tv_nsec |-> subsec_nanos(d)]
from_timespec(ts) == Duration_new(ts.tv_sec, ts.tv_nsec)

monotonic_time == mono
wall_time == mono + BootEpoch

\* Mutant of current_time: the monotonic clock whatever the clock selector.
current_time_monotonic == monotonic_time

current_time ==
    IF clockid = CLOCK_MONOTONIC THEN monotonic_time
    ELSE IF clockid = CLOCK_REALTIME THEN wall_time
    ELSE monotonic_time

\* readahead.rs: the page size in bytes, the first window, the largest
\* window and the largest gap of a sequential read, in pages.
PAGE_SIZE == 4096
RA_INIT_PAGES == 4
RA_MAX_PAGES == 64
RA_SEQ_GAP_PAGES == 2

---------------------------------------------------------------------------
(* Records *)

\* ReadaheadState::new, lines 73-82.
ReadaheadState_new ==
    [ra_start |-> 0, ra_size |-> 0, async_size |-> 0, prev_end |-> 0,
     pattern |-> "Initial", seq_count |-> 0]

\* No call of readahead_decide yet.
RaIdle == [st |-> ReadaheadState_new, action |-> "none", start_page |-> 0,
           num_pages |-> 0]

\* last: what the iteration just ended did at the firing point, kept until the
\* next iteration reads the deadline.
LoopStart(last) == [pc |-> "read_target", target |-> None, now_mono |-> 0,
                    delta |-> 0, deadline |-> 0, listener |-> "none",
                    last |-> last]

\* old: the itimerspec sys_timerfd_settime (old_value) or sys_timerfd_gettime
\* (curr_value) copies out; events: the IoEvents a poll of the timer returned
ArmIdle == [pc |-> "idle", old |-> ZeroItimerspec, events |-> {}]

\* len: the room in the destination buffer of the read in progress
RdIdle == [pc |-> "idle", nb |-> FALSE, registered |-> FALSE, woken |-> FALSE,
           result |-> "none", count |-> 0, len |-> 0]

\* Acquiring and releasing a lock: Mutex::lock, RwLock::read, and the drop of
\* the guard.
lock(h, task, l) == h \cup {<<task, l>>}

\* Mutant of unlock: the guard is kept.
unlock_forgotten(h, task, l) == h

unlock(h, task, l) == h \ {<<task, l>>}

\* No call of do_select: nothing in user memory, no descriptor, no signal.
SelIdle == [pc |-> "idle", nfds |-> 0, timeout |-> None, sigmask |-> NullSigmask,
            readfds_in |-> NullFdSet, writefds_in |-> NullFdSet,
            exceptfds_in |-> NullFdSet,
            read_set |-> {}, write_set |-> {}, except_set |-> {},
            fds |-> <<>>, fd_indices |-> <<>>, old_blocked |-> NoMask,
            entered |-> 0, deadline |-> None, registered |-> FALSE, woken |-> FALSE,
            ready_count |-> NoResult, result |-> NoResult, done |-> {}]

\* TimerFd::new: zeroed state, disarmed, background task spawned at the top
\* of timer_loop.  sys_timerfd_create sets non_blocking when TFD_NONBLOCK is given.
Init ==
    /\ held = {}
    /\ sel = SelIdle
    /\ user = [readfds |-> NullFdSet, writefds |-> NullFdSet, exceptfds |-> NullFdSet]
    /\ fd_table = {}
    /\ ready = [fd \in Fds |-> {}]
    /\ blocked = {}
    /\ sigpending = {}
    /\ ra = RaIdle
    /\ clockid \in ClockIds
    /\ mono = 0
    /\ state = [ticks |-> 0, interval |-> 0, next_expiration |-> None]
    /\ non_blocking \in BOOLEAN
    /\ loop = LoopStart("none")
    /\ arm = ArmIdle
    /\ rd = RdIdle
    /\ owed = 0

---------------------------------------------------------------------------
(* The clock *)

\* Time passes: the monotonic clock moves on by a nanosecond.
Tick ==
    /\ mono + 1 \in TimePoints
    /\ mono' = mono + 1
    /\ UNCHANGED <<rvars, svars, held, clockid, state, non_blocking, loop, arm, rd, owed>>

---------------------------------------------------------------------------
(* TimerFd::set_time, called from sys_timerfd_settime *)

\* Mutant of curr_value_of: the deadline itself instead of the time left to it.
curr_value_of_deadline(st, now) ==
    [it_interval |-> to_timespec(st.interval),
     it_value    |-> to_timespec(IF st.next_expiration = None THEN 0
                                 ELSE st.next_expiration)]

\* Mutant of old_value_of: the deadline itself instead of the time left to it.
old_value_of_deadline(st, now) ==
    IF st.next_expiration # None
    THEN [it_value |-> to_timespec(st.next_expiration),
          it_interval |-> to_timespec(st.interval)]
    ELSE ZeroItimerspec

\* Lines 72-87: the value reported through old_value.
old_value_of(st, now) ==
    IF st.next_expiration # None
    THEN [it_value |-> to_timespec(saturating_sub(st.next_expiration, now)),
          it_interval |-> to_timespec(st.interval)]
    ELSE ZeroItimerspec

\* Lines 100-112: the deadline an arm stores.
new_expiration(flags, value, now) ==
    IF value = 0 THEN None
    ELSE IF flags % 2 # 0 THEN value
    ELSE now + value

\* Mutant of armed: set_time starts the timer afresh, dropping pending ticks.
armed_afresh(st, flags, new_value, now) ==
    [ticks |-> 0,
     interval |-> from_timespec(new_value.it_interval),
     next_expiration |->
         new_expiration(flags, from_timespec(new_value.it_value), now)]

\* Lines 89-112: the state set_time leaves: the interval and the deadline of
\* new_value; the ticks are not touched.
armed(st, flags, new_value, now) ==
    [st EXCEPT !.interval = from_timespec(new_value.it_interval),
               !.next_expiration =
                   new_expiration(flags, from_timespec(new_value.it_value), now)]

\* Line 114: Event::notify(usize::MAX) marks every listener registered now.
notify(listener) == IF listener = "listening" THEN "notified" ELSE listener

\* Lines 74 and 104: set_time reads the timer's clock under the lock, for the
\* old value and for the new deadline.
set_time_old == old_value_of(state, current_time)
set_time_state(flags, new_value) == armed(state, flags, new_value, current_time)

\* Lines 64-116, the whole of set_time under one acquisition of the state
\* lock: fill old_value from the state as it is, store the interval and the
\* new deadline, broadcast on update_event.
set_time(flags, new_value, want_old) ==
    /\ arm.pc = "idle"
    /\ state.ticks < MaxTicks
    /\ state' = set_time_state(flags, new_value)
    /\ arm' = IF want_old
              THEN [pc |-> "return", old |-> set_time_old, events |-> {}]
              ELSE arm
    /\ loop' = [loop EXCEPT !.listener = notify(loop.listener)]
    /\ held' = unlock(lock(held, "set_time", "state"), "set_time", "state")
    /\ UNCHANGED <<rvars, svars, clockid, mono, non_blocking, rd, owed>>

\* sys_timerfd_settime lines 45-53: old is copied out, the call returns 0.
sys_timerfd_settime_return ==
    /\ arm.pc = "return"
    /\ arm' = ArmIdle
    /\ UNCHANGED <<rvars, svars, held, clockid, mono, state, non_blocking, loop, rd, owed>>

SetTime ==
    \/ \E flags \in FlagValues, iv \in Timespecs, v \in Timespecs, w \in BOOLEAN :
          set_time(flags, [it_interval |-> iv, it_value |-> v], w)
    \/ sys_timerfd_settime_return

---------------------------------------------------------------------------
(* TimerFd::get_time, called from sys_timerfd_gettime *)

\* Lines 127-135: the time left to the stored deadline (zero when there is
\* none or it has passed) and the stored interval.
curr_value_of(st, now) ==
    LET remaining == IF st.next_expiration = None THEN 0
                     ELSE saturating_sub(st.next_expiration, now)
    IN [it_interval |-> to_timespec(st.interval),
        it_value    |-> to_timespec(remaining)]

\* Lines 123-136, under one acquisition of the state lock; nothing is written.
get_time ==
    /\ arm.pc = "idle"
    /\ arm' = [pc |-> "gettime_return", old |-> curr_value_of(state, current_time),
               events |-> {}]
    /\ held' = unlock(lock(held, "get_time", "state"), "get_time", "state")
    /\ UNCHANGED <<rvars, svars, clockid, mono, state, non_blocking, loop, rd, owed>>

\* sys_timerfd_gettime lines 66-67: curr_value is copied out, the call returns 0.
sys_timerfd_gettime_return ==
    /\ arm.pc = "gettime_return"
    /\ arm' = ArmIdle
    /\ UNCHANGED <<rvars, svars, held, clockid, mono, state, non_blocking, loop, rd, owed>>

GetTime == get_time \/ sys_timerfd_gettime_return

---------------------------------------------------------------------------
(* TimerFd::timer_loop, the background task *)

\* Lines 140-145: read next_expiration under the lock; Some goes on to the
\* clock, None to the idle wait.
timer_loop_read_target ==
    /\ loop.pc = "read_target"
    /\ loop' = [loop EXCEPT !.target = state.next_expiration, !.last = "none",
                            !.pc = IF state.next_expiration # None
                                   THEN "read_clock" ELSE "listen_idle"]
    /\ held' = unlock(lock(held, "timer_loop", "state"), "timer_loop", "state")
    /\ UNCHANGED <<rvars, svars, clockid, mono, state, non_blocking, arm, rd, owed>>

\* Lines 147-150: read the timer's clock and the time left to the target.
timer_loop_read_clock ==
    /\ loop.pc = "read_clock"
    /\ LET now_mono == current_time
           delta == saturating_sub(loop.target, now_mono)
       IN loop' = IF delta = 0
                  THEN [loop EXCEPT !.now_mono = now_mono, !.pc = "fire"]
                  ELSE [loop EXCEPT !.delta = delta, !.pc = "listen"]
    /\ UNCHANGED <<rvars, svars, held, clockid, mono, state, non_blocking, arm, rd, owed>>

\* Mutant of fire: fire without comparing the stored deadline.
fire_unchecked(st, target_time, now_mono) ==
    [ticks |-> st.ticks + 1,
     interval |-> st.interval,
     next_expiration |-> IF st.interval # 0 THEN now_mono + st.interval
                         ELSE None]

\* Lines 152-161: under the lock, fire only if the stored deadline is still
\* the captured one: one more tick, then re-arm by the interval or disarm.
fire(st, target_time, now_mono) ==
    IF st.next_expiration = target_time
    THEN [ticks |-> st.ticks + 1,
          interval |-> st.interval,
          next_expiration |-> IF st.interval # 0 THEN now_mono + st.interval
                              ELSE None]
    ELSE st

\* Mutant of wake: the firing wakes nobody.
wake_nobody(r) == r

\* Line 154: PollSet::wake wakes and drops every registered waker.
wake(r) == IF r.registered THEN [r EXCEPT !.registered = FALSE, !.woken = TRUE]
           ELSE r

\* Lines 150-163: the deadline has passed: fire or skip, then start over.
timer_loop_fire ==
    /\ loop.pc = "fire"
    /\ state' = fire(state, loop.target, loop.now_mono)
    /\ IF state'.ticks # state.ticks
       THEN /\ rd' = wake(rd)
            /\ owed' = owed + 1
            /\ loop' = LoopStart("fired")
       ELSE /\ rd' = rd
            /\ owed' = owed
            /\ loop' = LoopStart("skipped")
    /\ held' = unlock(lock(held, "timer_loop", "state"), "timer_loop", "state")
    /\ UNCHANGED <<rvars, svars, clockid, mono, non_blocking, arm>>

\* Lines 165-166: the wall-clock deadline handed to timeout_at, and a
\* listener registered on update_event.
timer_loop_listen ==
    /\ loop.pc = "listen"
    /\ loop' = [loop EXCEPT !.deadline = wall_time + loop.delta, !.delta = 0,
                            !.listener = "listening", !.pc = "sleep"]
    /\ UNCHANGED <<rvars, svars, held, clockid, mono, state, non_blocking, arm, rd, owed>>

\* Line 167: timeout_at(deadline, listener) ends when the listener was
\* notified or when the wall clock reaches the deadline.
timer_loop_sleep ==
    /\ loop.pc = "sleep"
    /\ \/ loop.listener = "notified"
       \/ wall_time >= loop.deadline
    /\ loop' = LoopStart("none")
    /\ UNCHANGED <<rvars, svars, held, clockid, mono, state, non_blocking, arm, rd, owed>>

\* Line 169: no deadline: register a listener on update_event.
timer_loop_listen_idle ==
    /\ loop.pc = "listen_idle"
    /\ loop' = [loop EXCEPT !.listener = "listening", !.pc = "idle"]
    /\ UNCHANGED <<rvars, svars, held, clockid, mono, state, non_blocking, arm, rd, owed>>

\* Line 170: listener.await ends only when the listener was notified.
timer_loop_idle ==
    /\ loop.pc = "idle"
    /\ loop.listener = "notified"
    /\ loop' = LoopStart("none")
    /\ UNCHANGED <<rvars, svars, held, clockid, mono, state, non_blocking, arm, rd, owed>>

TimerLoop ==
    \/ timer_loop_read_target
    \/ timer_loop_read_clock
    \/ timer_loop_fire
    \/ timer_loop_listen
    \/ timer_loop_sleep
    \/ timer_loop_listen_idle
    \/ timer_loop_idle

---------------------------------------------------------------------------
(* <TimerFd as FileLike>::read and <TimerFd as Pollable> *)

\* Lines 208-210: the non-blocking flag, set by sys_timerfd_create when
\* TFD_NONBLOCK is given.
nonblocking == non_blocking

\* Lines 223-230: the readiness the timer reports.
poll(st) == IF st.ticks > 0 THEN {"IN", "RDNORM"} ELSE {}

\* A poll of the timer by the calling task: Pollable::poll under the state
\* lock; the state is left as it is.
poll_call ==
    /\ arm.pc = "idle"
    /\ arm' = [pc |-> "poll_return", old |-> ZeroItimerspec, events |-> poll(state)]
    /\ held' = unlock(lock(held, "poll", "state"), "poll", "state")
    /\ UNCHANGED <<rvars, svars, clockid, mono, state, non_blocking, loop, rd, owed>>

poll_return ==
    /\ arm.pc = "poll_return"
    /\ arm' = ArmIdle
    /\ UNCHANGED <<rvars, svars, held, clockid, mono, state, non_blocking, loop, rd, owed>>

Poll == poll_call \/ poll_return

\* Mutant of read_closure: the ticks are returned but not zeroed.
read_closure_keeps(st) ==
    IF st.ticks > 0
    THEN [st |-> st, result |-> "Ok", count |-> st.ticks]
    ELSE [st |-> st, result |-> "WouldBlock", count |-> 0]

\* Mutant of read_closure: a count of zero is returned like any other.
read_closure_zero(st) ==
    [st |-> [st EXCEPT !.ticks = 0], result |-> "Ok", count |-> st.ticks]

\* Lines 184-192: the closure of read, run under the state lock: take the
\* ticks and zero them, or WouldBlock.  Gives the new state, the result, the count.
read_closure(st) ==
    IF st.ticks > 0
    THEN [st |-> [st EXCEPT !.ticks = 0], result |-> "Ok", count |-> st.ticks]
    ELSE [st |-> st, result |-> "WouldBlock", count |-> 0]

\* Mutant of read_call: the room in the destination is not checked.
read_call_unchecked(len) ==
    /\ rd.pc = "idle"
    /\ rd' = [rd EXCEPT !.pc = "try", !.nb = nonblocking, !.len = len]
    /\ UNCHANGED <<rvars, svars, held, clockid, mono, state, non_blocking, loop, arm, owed>>

\* Lines 178-183: a read starts: a destination shorter than 8 bytes is refused,
\* otherwise poll_io is entered with the non-blocking flag as it is now.
read_call(len) ==
    /\ rd.pc = "idle"
    /\ rd' = IF len < 8
             THEN [rd EXCEPT !.pc = "done", !.result = "InvalidInput", !.len = len]
             ELSE [rd EXCEPT !.pc = "try", !.nb = nonblocking, !.len = len]
    /\ UNCHANGED <<rvars, svars, held, clockid, mono, state, non_blocking, loop, arm, owed>>

\* Lines 183-193: poll_io runs the closure; Ok ends the read; WouldBlock ends a
\* non-blocking read and sends a blocking one to register its waker.
read_try ==
    /\ rd.pc = "try"
    /\ LET r == read_closure(state)
       IN /\ state' = r.st
          /\ rd' = IF r.result = "Ok"
                   THEN [rd EXCEPT !.pc = "done", !.result = "Ok", !.count = r.count]
                   ELSE IF rd.nb
                   THEN [rd EXCEPT !.pc = "done", !.result = "WouldBlock"]
                   ELSE [rd EXCEPT !.pc = "register"]
          /\ owed' = owed - r.count
    /\ held' = unlock(lock(held, "read", "state"), "read", "state")
    /\ UNCHANGED <<rvars, svars, clockid, mono, non_blocking, loop, arm>>

\* Lines 232-236: register(cx, IN) puts the reader's waker in poll_read.
read_register ==
    /\ rd.pc = "register"
    /\ rd' = [rd EXCEPT !.registered = TRUE, !.pc = "retry"]
    /\ UNCHANGED <<rvars, svars, held, clockid, mono, state, non_blocking, loop, arm, owed>>

\* Lines 183-193: poll_io runs the closure again after registering; still
\* WouldBlock suspends the reader until its waker is woken.
read_retry ==
    /\ rd.pc = "retry"
    /\ LET r == read_closure(state)
       IN /\ state' = r.st
          /\ rd' = IF r.result = "Ok"
                   THEN [rd EXCEPT !.pc = "done", !.result = "Ok", !.count = r.count]
                   ELSE [rd EXCEPT !.pc = "pending"]
          /\ owed' = owed - r.count
    /\ held' = unlock(lock(held, "read", "state"), "read", "state")
    /\ UNCHANGED <<rvars, svars, clockid, mono, non_blocking, loop, arm>>

\* Line 183: block_on polls the future again once the waker was woken.
read_wakeup ==
    /\ rd.pc = "pending"
    /\ rd.woken
    /\ rd' = [rd EXCEPT !.woken = FALSE, !.pc = "try"]
    /\ UNCHANGED <<rvars, svars, held, clockid, mono, state, non_blocking, loop, arm, owed>>

\* Line 193: read returns its result to the caller; the waker of this call dies.
read_return ==
    /\ rd.pc = "done"
    /\ rd' = RdIdle
    /\ UNCHANGED <<rvars, svars, held, clockid, mono, state, non_blocking, loop, arm, owed>>

Read ==
    \/ \E len \in BufLens : read_call(len)
    \/ read_try
    \/ read_register
    \/ read_retry
    \/ read_wakeup
    \/ read_return

---------------------------------------------------------------------------
(* do_select: the multiplexed wait of select and pselect6 *)

\* Mutant of FdSet_new: every bit of the caller's set is taken, whatever nfds.
FdSet_new_unbounded(nfds, fds) == fds.bits

\* Lines 27-37: the bits below nfds of the caller's set; none for a null set.
FdSet_new(nfds, fds) ==
    IF fds.null THEN {} ELSE {i \in fds.bits : i < nfds}

\* Lines 52-63: store_fdset writes the value unless the pointer is null.
store_fdset(ptr, value) == IF ptr.null THEN ptr ELSE FdSetOf(value)

\* Bitmap::into_iter (line 111): the set bits in ascending order.
RECURSIVE into_iter(_)
into_iter(bitmap) ==
    IF bitmap = {} THEN <<>>
    ELSE LET fd == CHOOSE x \in bitmap : \A y \in bitmap : x <= y
         IN <<fd>> \o into_iter(bitmap \ {fd})

\* Lines 117-120: the interest of a descriptor, from the three sets.
events_of(fd, read_set, write_set, except_set) ==
    (IF fd \in read_set THEN {"IN"} ELSE {})
       \cup (IF fd \in write_set THEN {"OUT"} ELSE {})
       \cup (IF fd \in except_set THEN {"ERR"} ELSE {})

\* Lines 111-125: the candidate list, one (object, interest) per descriptor of
\* the union whose interest is not empty.  The object is named by its number.
RECURSIVE candidates(_, _, _, _)
candidates(order, read_set, write_set, except_set) ==
    IF order = <<>> THEN <<>>
    ELSE LET fd == Head(order)
             events == events_of(fd, read_set, write_set, except_set)
             rest == candidates(Tail(order), read_set, write_set, except_set)
         IN IF events # {} THEN <<[f |-> fd, events |-> events]>> \o rest
            ELSE rest

\* Mutant of polled: the descriptor is resolved again in the table as it is
\* now, and a descriptor that no longer resolves reports nothing.
polled_resolved_again(c, rdy) ==
    IF c.f \in fd_table THEN rdy[c.f] \cap c.events ELSE {}

\* Line 165 (and 137): what a candidate's poll reports of its interest.
polled(c, rdy) == rdy[c.f] \cap c.events

\* Mutant of ready_candidates: a candidate counts when it reports anything.
ready_candidates_any(fds, rdy) ==
    Cardinality({i \in 1..Len(fds) : rdy[fds[i].f] # {}})

\* Lines 135-144: the candidates that report some of their interest.
ready_candidates(fds, rdy) ==
    Cardinality({i \in 1..Len(fds) : polled(fds[i], rdy) # {}})

\* Mutant of out_set: the interest is written back, ready or not.
out_set_interest(fds, fd_indices, rdy, kind) ==
    {fd_indices[i] : i \in {j \in 1..Len(fds) : kind \in fds[j].events}}

\* Lines 164-179: the descriptors set in the output set of a kind.
out_set(fds, fd_indices, rdy, kind) ==
    {fd_indices[i] : i \in {j \in 1..Len(fds) : kind \in polled(fds[j], rdy)}}

\* The wall clock has reached the deadline of future::timeout.
elapsed == sel.deadline # None /\ wall_time >= sel.deadline

\* Mutant of do_select_validate: the arguments are taken as they come.
do_select_validate_unchecked(nfds, timeout, sigmask) ==
    /\ sel.pc = "idle"
    /\ sel' = [sel EXCEPT !.pc = "load", !.nfds = nfds, !.timeout = timeout,
                          !.sigmask = sigmask]
    /\ UNCHANGED <<rvars, tvars, mono, held, user, fd_table, ready, blocked, sigpending>>

\* Lines 79-88: nfds beyond the capacity and a sigmask of the wrong size are
\* refused before anything else is done.
do_select_validate(nfds, timeout, sigmask) ==
    /\ sel.pc = "idle"
    /\ sel' = IF nfds > FD_SETSIZE
              THEN [sel EXCEPT !.pc = "done", !.nfds = nfds, !.timeout = timeout,
                               !.sigmask = sigmask, !.result = Err("InvalidInput")]
              ELSE IF ~sigmask.null /\ ~check_sigset_size(sigmask)
              THEN [sel EXCEPT !.pc = "done", !.nfds = nfds, !.timeout = timeout,
                               !.sigmask = sigmask, !.result = Err("InvalidInput")]
              ELSE [sel EXCEPT !.pc = "load", !.nfds = nfds, !.timeout = timeout,
                               !.sigmask = sigmask]
    /\ UNCHANGED <<rvars, tvars, mono, held, user, fd_table, ready, blocked, sigpending>>

\* Lines 93-99: the three sets are copied from user memory and cut to nfds.
do_select_load ==
    /\ sel.pc = "load"
    /\ sel' = [sel EXCEPT !.pc = "lookup",
                          !.readfds_in = user.readfds,
                          !.writefds_in = user.writefds,
                          !.exceptfds_in = user.exceptfds,
                          !.read_set = FdSet_new(sel.nfds, user.readfds),
                          !.write_set = FdSet_new(sel.nfds, user.writefds),
                          !.except_set = FdSet_new(sel.nfds, user.exceptfds),
                          !.done = sel.done \cup {"load"}]
    /\ UNCHANGED <<rvars, tvars, mono, held, user, fd_table, ready, blocked, sigpending>>


\* Mutant of lookup_misses: a descriptor that does not resolve is passed over.
lookup_misses_ignored(fd_bitmap, table) == FALSE

\* Lines 112-114: some descriptor of the union does not resolve in the table.
lookup_misses(fd_bitmap, table) == \E fd \in fd_bitmap : fd \notin table

\* Lines 106-128: under the read lock of FD_TABLE every descriptor of the union
\* is looked up; a miss ends the call with BadFileDescriptor, else the
\* candidate list is built.  The lock is dropped on both ways out.
do_select_lookup ==
    /\ sel.pc = "lookup"
    /\ LET fd_bitmap == sel.read_set \cup sel.write_set \cup sel.except_set
           order == into_iter(fd_bitmap)
           fds == candidates(order, sel.read_set, sel.write_set, sel.except_set)
       IN sel' = IF lookup_misses(fd_bitmap, fd_table)
                 THEN [sel EXCEPT !.pc = "done", !.result = Err("BadFileDescriptor"),
                                  !.done = sel.done \cup {"lookup"}]
                 ELSE [sel EXCEPT !.pc = "enter", !.fds = fds,
                                  !.fd_indices = [i \in 1..Len(fds) |-> fds[i].f],
                                  !.done = sel.done \cup {"lookup"}]
    /\ held' = unlock(lock(held, "do_select", "FD_TABLE"), "do_select", "FD_TABLE")
    /\ UNCHANGED <<rvars, tvars, mono, user, fd_table, ready, blocked, sigpending>>

\* Mutant of sigmask_copied: the override is not handed to the wait.
sigmask_dropped(sigmask) == NoMask

\* Line 130: sigmask.copied(), the override handed to with_replacen_blocked.
sigmask_copied(sigmask) ==
    IF sigmask.null THEN NoMask ELSE SomeMask(sigmask.set)

\* with_replacen_blocked, on the way in: the blocked mask becomes the
\* override, when one is given, and the mask it replaces is kept.
with_replacen_blocked_old(override, mask) ==
    IF override.some THEN SomeMask(mask) ELSE NoMask
with_replacen_blocked_new(override, mask) ==
    IF override.some THEN override.set ELSE mask

\* with_replacen_blocked, on every way out: the kept mask is put back.
with_replacen_blocked_restore(old, mask) ==
    IF old.some THEN old.set ELSE mask

\* Mutant of timeout_deadline: the timeout is taken for the deadline itself.
timeout_deadline_absolute(timeout, now) == timeout

\* Lines 131-132: future::timeout(timeout, ..) ends at now + timeout on the
\* wall clock, and never when there is no timeout.
timeout_deadline(timeout, now) ==
    IF timeout = None THEN None ELSE now + timeout

\* Lines 130-133: the wait begins: the mask is replaced and future::timeout
\* takes its deadline from the wall clock.
do_select_enter ==
    /\ sel.pc = "enter"
    /\ LET override == sigmask_copied(sel.sigmask)
       IN /\ blocked' = with_replacen_blocked_new(override, blocked)
          /\ sel' = [sel EXCEPT
                        !.pc = "try",
                        !.old_blocked = with_replacen_blocked_old(override, blocked),
                        !.entered = wall_time,
                        !.deadline = timeout_deadline(sel.timeout, wall_time),
                        !.done = sel.done \cup {"wait"}
                                    \cup (IF override.some THEN {"mask"} ELSE {})]
    /\ UNCHANGED <<rvars, tvars, mono, held, user, fd_table, ready, sigpending>>

\* Lines 133-145: poll_io runs the closure: a positive count ends the wait,
\* otherwise the candidates' wakers are to be registered.
do_select_try ==
    /\ sel.pc = "try"
    /\ LET res == ready_candidates(sel.fds, ready)
       IN sel' = IF res > 0
                 THEN [sel EXCEPT !.pc = "exit", !.ready_count = Ok(res)]
                 ELSE [sel EXCEPT !.pc = "register"]
    /\ UNCHANGED <<rvars, tvars, mono, held, user, fd_table, ready, blocked, sigpending>>

\* Line 133: poll_io registers the task's waker with every candidate.
do_select_register ==
    /\ sel.pc = "register"
    /\ sel' = [sel EXCEPT !.pc = "retry", !.registered = TRUE]
    /\ UNCHANGED <<rvars, tvars, mono, held, user, fd_table, ready, blocked, sigpending>>

\* Mutant of do_select_retry: the closure is not run again after the wakers
\* have been registered.
do_select_retry_blind ==
    /\ sel.pc = "retry"
    /\ sel' = IF elapsed
              THEN [sel EXCEPT !.pc = "exit", !.ready_count = Ok(0)]
              ELSE [sel EXCEPT !.pc = "pending"]
    /\ UNCHANGED <<rvars, tvars, mono, held, user, fd_table, ready, blocked, sigpending>>

\* Lines 131-148: poll_io runs the closure again; when nothing is ready still,
\* future::timeout ends the wait with 0 once the deadline has passed, and the
\* task is suspended otherwise.
do_select_retry ==
    /\ sel.pc = "retry"
    /\ LET res == ready_candidates(sel.fds, ready)
       IN sel' = IF res > 0
                 THEN [sel EXCEPT !.pc = "exit", !.ready_count = Ok(res)]
                 ELSE IF elapsed
                 THEN [sel EXCEPT !.pc = "exit", !.ready_count = Ok(0)]
                 ELSE [sel EXCEPT !.pc = "pending"]
    /\ UNCHANGED <<rvars, tvars, mono, held, user, fd_table, ready, blocked, sigpending>>

\* Line 131: block_on polls the future again when a candidate woke the task
\* or the deadline has passed.
do_select_wakeup ==
    /\ sel.pc = "pending"
    /\ sel.woken \/ elapsed
    /\ sel' = [sel EXCEPT !.pc = "try", !.woken = FALSE]
    /\ UNCHANGED <<rvars, tvars, mono, held, user, fd_table, ready, blocked, sigpending>>

\* Line 133: poll_io is interruptible: a pending signal that the mask in
\* force does not block ends the wait with Interrupted.
do_select_interrupted ==
    /\ sel.pc \in {"try", "register", "retry", "pending"}
    /\ sigpending \ blocked # {}
    /\ sel' = [sel EXCEPT !.pc = "exit", !.ready_count = Err("Interrupted")]
    /\ UNCHANGED <<rvars, tvars, mono, held, user, fd_table, ready, blocked, sigpending>>

\* Line 150: the wait is over: with_replacen_blocked puts the mask back and
\* an error of the wait is the result of the call.
do_select_exit ==
    /\ sel.pc = "exit"
    /\ blocked' = with_replacen_blocked_restore(sel.old_blocked, blocked)
    /\ sel' = IF sel.ready_count.err # "Ok"
              THEN [sel EXCEPT !.pc = "done", !.result = sel.ready_count]
              ELSE [sel EXCEPT !.pc = "output"]
    /\ UNCHANGED <<rvars, tvars, mono, held, user, fd_table, ready, sigpending>>

\* Lines 152-191: with a positive count every candidate is polled once more
\* and the descriptors that report their interest are set in the zeroed
\* output sets; the sets are written to user memory and the count returned.
do_select_output ==
    /\ sel.pc = "output"
    /\ LET positive == sel.ready_count.val > 0
           out(kind) == IF positive
                        THEN out_set(sel.fds, sel.fd_indices, ready, kind)
                        ELSE {}
           res == IF positive THEN ready_candidates(sel.fds, ready) ELSE 0
       IN /\ user' = [readfds |-> store_fdset(user.readfds, out("IN")),
                      writefds |-> store_fdset(user.writefds, out("OUT")),
                      exceptfds |-> store_fdset(user.exceptfds, out("ERR"))]
          /\ sel' = [sel EXCEPT !.pc = "done", !.result = Ok(res),
                                !.done = sel.done \cup {"store"}]
    /\ UNCHANGED <<rvars, tvars, mono, held, fd_table, ready, blocked, sigpending>>

DoSelect ==
    \/ \E nfds \in NfdsValues, timeout \in Timeouts, sigmask \in SigmaskArgs :
          do_select_validate(nfds, timeout, sigmask)
    \/ do_select_load
    \/ do_select_lookup
    \/ do_select_enter
    \/ do_select_try
    \/ do_select_register
    \/ do_select_retry
    \/ do_select_wakeup
    \/ do_select_interrupted
    \/ do_select_exit
    \/ do_select_output

\* The object behind an open descriptor changes what its poll reports and
\* wakes the wakers registered with it.
object_changes(fd, events) ==
    /\ fd \in fd_table
    /\ events # ready[fd]
    /\ ready' = [ready EXCEPT ![fd] = events]
    /\ sel' = IF sel.registered /\ \E i \in 1..Len(sel.fds) : sel.fds[i].f = fd
              THEN [sel EXCEPT !.registered = FALSE, !.woken = TRUE]
              ELSE sel
    /\ UNCHANGED <<rvars, tvars, mono, held, user, fd_table, blocked, sigpending>>

\* A signal is sent to the calling task.
signal_sent(sig) ==
    /\ sig \notin sigpending
    /\ sigpending' = sigpending \cup {sig}
    /\ UNCHANGED <<rvars, tvars, mono, held, sel, user, fd_table, ready, blocked>>

\* The same of an object whose descriptor has been closed and which lives on
\* in the call's candidate list (lines 115, 122).
snapshot_object_changes(fd, events) ==
    /\ fd \notin fd_table
    /\ \E i \in 1..Len(sel.fds) : sel.fds[i].f = fd
    /\ events # ready[fd]
    /\ ready' = [ready EXCEPT ![fd] = events]
    /\ sel' = IF sel.registered
              THEN [sel EXCEPT !.registered = FALSE, !.woken = TRUE]
              ELSE sel
    /\ UNCHANGED <<rvars, tvars, mono, held, user, fd_table, blocked, sigpending>>

\* Another task closes a descriptor: the table no longer resolves it; the
\* object lives on while the call's candidate list holds its reference.
descriptor_closed(fd) ==
    /\ fd \in fd_table
    /\ fd_table' = fd_table \ {fd}
    /\ UNCHANGED <<rvars, tvars, mono, held, sel, user, ready, blocked, sigpending>>

Environment ==
    \/ \E fd \in Fds, events \in ReadyValues : object_changes(fd, events)
    \/ \E sig \in Sigs : signal_sent(sig)

---------------------------------------------------------------------------
(* readahead_decide and ReadaheadState *)

\* Lines 91-103: the read starts in the last async_size pages of the window.
should_trigger_async(st, read_start) ==
    LET ra_size == st.ra_size * PAGE_SIZE
        async_size == st.async_size * PAGE_SIZE
        trigger_point == st.ra_start + saturating_sub(ra_size, async_size)
    IN IF ra_size = 0 THEN FALSE
       ELSE read_start >= trigger_point /\ read_start < st.ra_start + ra_size

\* Lines 106-110.
update_window(st, start, size_pages, async_pages) ==
    [st EXCEPT !.ra_start = start, !.ra_size = size_pages,
               !.async_size = async_pages]

\* The smaller of two numbers.
min(a, b) == IF a < b THEN a ELSE b

\* The larger of two numbers.
max(a, b) == IF a > b THEN a ELSE b

\* Mutant of next_ra_size: the window doubles without a cap.
next_ra_size_uncapped(st) ==
    IF st.ra_size = 0 THEN RA_INIT_PAGES ELSE st.ra_size * 2

\* Lines 113-121: the first window, or the double of the current one capped
\* at RA_MAX_PAGES.
next_ra_size(st) ==
    IF st.ra_size = 0 THEN RA_INIT_PAGES ELSE min(st.ra_size * 2, RA_MAX_PAGES)

\* Lines 131-143: the first read is sequential when it starts in the first
\* four pages, a later one when it starts within RA_SEQ_GAP_PAGES of the end
\* of the read before it, on either side.
is_sequential(st, read_start) ==
    LET gap == IF read_start >= st.prev_end THEN read_start - st.prev_end
               ELSE st.prev_end - read_start
    IN IF st.prev_end = 0 THEN read_start < PAGE_SIZE * 4
       ELSE gap <= RA_SEQ_GAP_PAGES * PAGE_SIZE

\* Lines 126-160: prev_end becomes the end of this read; a sequential read
\* counts, and makes the pattern Sequential from the third in a row on; any
\* other resets the count and the window size and makes the pattern Random.
detect_pattern(st, read_start, read_len) ==
    IF is_sequential(st, read_start)
    THEN [st EXCEPT !.prev_end = read_start + read_len,
                    !.seq_count = st.seq_count + 1,
                    !.pattern = IF st.pattern # "Sequential" /\ st.seq_count >= 2
                                THEN "Sequential" ELSE st.pattern]
    ELSE [st EXCEPT !.prev_end = read_start + read_len,
                    !.seq_count = 0,
                    !.pattern = "Random",
                    !.ra_size = 0]

\* The result of a call: the state it leaves and the action it returns.
Decision(st, action, start_page, num_pages) ==
    [st |-> st, action |-> action, start_page |-> start_page,
     num_pages |-> num_pages]

\* Lines 177-232.  The page numbers of the model stay far below 2^32, so
\* the casts to u32 of lines 187 and 211 change nothing.
readahead_decide(st, read_start, read_len, cache_hit) ==
    IF read_len = 0 THEN Decision(st, "None", 0, 0)
    ELSE
    LET start_page == read_start \div PAGE_SIZE
        seq == is_sequential(st, read_start)
        st1 == detect_pattern(st, read_start, read_len)
    IN IF ~seq THEN Decision(st1, "None", 0, 0)
       ELSE IF should_trigger_async(st1, read_start)
       THEN LET next_start == st1.ra_start + st1.ra_size * PAGE_SIZE
                next_size == next_ra_size(st1)
                async_size == next_size \div 4
            IN Decision(update_window(st1, next_start, next_size, async_size),
                        "Async", next_start \div PAGE_SIZE, next_size)
       ELSE IF ~cache_hit /\ st1.pattern # "Random"
       THEN LET ra_size == RA_INIT_PAGES
                async_size == ra_size \div 4
                window_start == start_page * PAGE_SIZE
            IN Decision(update_window(st1, window_start, ra_size, max(async_size, 1)),
                        "Sync", start_page, ra_size)
       ELSE Decision(st1, "None", 0, 0)

\* The pages reads start in: those that walk the windows from the first to
\* the largest, and one far from all of them.
StartPages == {0, 3, 10, 24, 52, 108, FarPage}

\* The offsets of a read in its page.
PageOffsets == {0, 1}

\* Where reads start, in bytes.
ReadStarts == {pg * PAGE_SIZE + off : pg \in StartPages, off \in PageOffsets}

\* Read lengths in bytes: nothing, a byte, and the lengths that end a read
\* within reach of the next start page.
ReadLens == {0, 1} \cup {n * PAGE_SIZE : n \in {5, 12, 26, 54}}

\* One call of readahead_decide; backend.is_page_cached (line 188) answers
\* either way.
ReadaheadDecide(read_start, read_len, cache_hit) ==
    /\ ra.st.seq_count < MaxSeqCount
    /\ ra' = readahead_decide(ra.st, read_start, read_len, cache_hit)
    /\ UNCHANGED <<tvars, mono, held, svars>>

---------------------------------------------------------------------------
(* Specifications *)

Next ==
    \/ Tick
    \/ SetTime
    \/ GetTime
    \/ Poll
    \/ TimerLoop
    \/ Read

Spec == Init /\ [][Next]_vars

\* The scheduler runs every ready task again and again, the clock moves on,
\* and a system call that has started runs to its return.  Nobody is obliged
\* to call set_time or read.
Fairness ==
    /\ WF_vars(Tick)
    /\ WF_vars(TimerLoop)
    /\ WF_vars(sys_timerfd_settime_return)
    /\ WF_vars(sys_timerfd_gettime_return)
    /\ WF_vars(poll_return)
    /\ WF_vars(read_try \/ read_register \/ read_retry \/ read_wakeup \/ read_return)

FairSpec == Init /\ [][Next]_vars /\ Fairness

\* One call of do_select on some descriptor sets, descriptor table, objects
\* and blocked mask; the timer stays as created.
SelInit ==
    /\ clockid = CLOCK_MONOTONIC
    /\ mono = 0
    /\ state = [ticks |-> 0, interval |-> 0, next_expiration |-> None]
    /\ non_blocking = FALSE
    /\ loop = LoopStart("none")
    /\ arm = ArmIdle
    /\ rd = RdIdle
    /\ owed = 0
    /\ held = {}
    /\ sel = SelIdle
    /\ user \in UserMemories
    /\ fd_table \in FdTables
    /\ ready \in {r \in [Fds -> ReadyValues] : \A fd \in Fds \ fd_table : r[fd] = {}}
    /\ blocked = Sigs
    /\ sigpending = {}
    /\ ra = RaIdle

SelNext ==
    \/ Tick
    \/ DoSelect
    \/ Environment

SelSpec == SelInit /\ [][SelNext]_vars

\* Either subsystem at work: the timer with its callers, or one call of
\* do_select.  The descriptor table is empty exactly in the former.  Which
\* clock the timer is on and which descriptors are open has no part in the
\* locking: the timer is on the monotonic clock and descriptor 0 is open.
LockInit ==
    \/ Init /\ clockid = CLOCK_MONOTONIC
    \/ SelInit /\ fd_table = {0}

LockNext ==
    \/ fd_table = {} /\ Next
    \/ fd_table # {} /\ SelNext

LockSpec == LockInit /\ [][LockNext]_vars

\* One call of do_select on read interest while other tasks close
\* descriptors: both descriptors are open and nothing is readable at first.
SnapInit ==
    /\ SelInit
    /\ fd_table = Fds
    /\ user.writefds = FdSetOf({})
    /\ user.exceptfds = NullFdSet
    /\ ready = [fd \in Fds |-> {}]

SnapNext ==
    \/ SelNext
    \/ \E fd \in Fds : descriptor_closed(fd)
    \/ \E fd \in Fds, events \in ReadyValues : snapshot_object_changes(fd, events)

SnapSpec == SnapInit /\ [][SnapNext]_vars

\* TimerFd::new lines 51-52: the closure spawned as the background task owns
\* t, a clone of the Arc, for as long as it runs.
task_references == 1

\* The strong references to the timer: the entries of the descriptor table
\* (sys_timerfd_create, add_file_like), the background task's own, and those
\* of the calls in progress, which hold what they looked up.
strong_count ==
    Cardinality(fd_table) + task_references
        + (IF arm.pc # "idle" THEN 1 ELSE 0)
        + (IF rd.pc \notin {"idle", "done"} THEN 1 ELSE 0)

\* sys_timerfd_create: the timer as TimerFd::new leaves it, under one
\* descriptor.
LifeInit ==
    /\ held = {}
    /\ sel = SelIdle
    /\ user = [readfds |-> NullFdSet, writefds |-> NullFdSet, exceptfds |-> NullFdSet]
    /\ fd_table = {0}
    /\ ready = [fd \in Fds |-> {}]
    /\ blocked = {}
    /\ sigpending = {}
    /\ ra = RaIdle
    /\ clockid \in ClockIds
    /\ mono = 0
    /\ state = [ticks |-> 0, interval |-> 0, next_expiration |-> None]
    /\ non_blocking \in BOOLEAN
    /\ loop = LoopStart("none")
    /\ arm = ArmIdle
    /\ rd = RdIdle
    /\ owed = 0

\* A call on the timer starts through a descriptor that resolves to it; a
\* call that has started goes on with the reference it holds, and the
\* background task runs whether or not a descriptor is left.
LifeNext ==
    \/ Tick
    \/ TimerLoop
    \/ /\ fd_table # {}
       /\ \/ \E flags \in FlagValues, iv \in Timespecs, v \in Timespecs, w \in BOOLEAN :
                set_time(flags, [it_interval |-> iv, it_value |-> v], w)
          \/ get_time
          \/ poll_call
          \/ \E len \in BufLens : read_call(len)
    \/ sys_timerfd_settime_return
    \/ sys_timerfd_gettime_return
    \/ poll_return
    \/ read_try
    \/ read_register
    \/ read_retry
    \/ read_wakeup
    \/ read_return
    \/ \E fd \in Fds : descriptor_closed(fd)

LifeSpec == LifeInit /\ [][LifeNext]_vars

\* The calls of readahead_decide on one fresh ReadaheadState; the timer stays
\* as created and do_select is not called.
RaInit ==
    /\ Init
    /\ clockid = CLOCK_MONOTONIC
    /\ ~non_blocking

RaNext ==
    \E read_start \in ReadStarts, read_len \in ReadLens, cache_hit \in BOOLEAN :
        ReadaheadDecide(read_start, read_len, cache_hit)

RaSpec == RaInit /\ [][RaNext]_vars

TypeOK ==
    /\ clockid \in ClockIds
    /\ mono \in TimePoints
    /\ state.ticks \in Nat
    /\ state.interval \in Nat
    /\ state.next_expiration \in Nat \cup {None}
    /\ non_blocking \in BOOLEAN
    /\ loop.pc \in {"read_target", "read_clock", "fire", "listen", "sleep",
                    "listen_idle", "idle"}
    /\ loop.listener \in {"none", "listening", "notified"}
    /\ arm.pc \in {"idle", "return", "gettime_return", "poll_return"}
    /\ rd.pc \in {"idle", "try", "register", "retry", "pending", "done"}
    /\ rd.result \in {"none", "Ok", "WouldBlock", "InvalidInput"}

---------------------------------------------------------------------------
(* Claims *)

\* C1: once set_time has returned, the background task is never suspended on a
\* wait computed from the state before it: not in the idle wait while a
\* deadline is stored, not in the timed wait for another deadline than the
\* stored one.
C1_NoStaleWait ==
    /\ (loop.pc = "idle" /\ loop.listener = "listening")
          => state.next_expiration = None
    /\ (loop.pc = "sleep" /\ loop.listener = "listening")
          => state.next_expiration = loop.target

\* The stored deadline has been reached on the timer's clock.
Due == state.next_expiration # None /\ current_time >= state.next_expiration

\* The background task waits on its listener with no deadline, and nothing has
\* notified the listener: only another set_time can make it run again.
Parked == loop.pc = "idle" /\ loop.listener = "listening"

\* A one-shot timer armed with a relative value: the interval is zero, and the
\* deadline is later than every absolute value a caller passes, so that it was
\* computed as now + value.
OneShotRelative == state.interval = 0 /\ state.next_expiration > MaxDur

\* C2: after a one-shot relative arm the expiration is eventually recorded:
\* the background task has not stopped for good while the deadline has been
\* reached and its expiration is still to be recorded.
C2_OneShotExpires == ~(OneShotRelative /\ Due /\ Parked)

\* A periodic timer armed with a relative value: the interval is not zero, and
\* the deadline is later than every absolute value a caller passes.
PeriodicRelative == state.interval # 0 /\ state.next_expiration > MaxDur

\* C8: a periodic timer (interval non-zero) keeps firing until it is disarmed:
\* the background task has not stopped for good while a deadline of the
\* periodic timer has been reached and is still to be recorded.
C8_PeriodicKeepsFiring == ~(PeriodicRelative /\ Due /\ Parked)

FiringStep == loop.pc = "fire" /\ loop'.pc # "fire"

\* C4: a tick is recorded only at the firing point and only when the stored
\* deadline is the captured one; when it is not, the step leaves the whole
\* state as the arm wrote it and the loop starts over.
C4_CompareAndFire ==
    [][/\ state'.ticks > state.ticks
          => /\ FiringStep
             /\ state.next_expiration = loop.target
             /\ state'.ticks = state.ticks + 1
       /\ (FiringStep /\ state.next_expiration # loop.target)
          => /\ state' = state
             /\ loop'.pc = "read_target"]_vars

\* C4 witness: a firing was skipped and the deadline of the racing arm stands.
C4_Skipped == loop.last = "skipped" /\ state.next_expiration # None

\* A read takes the ticks: the closure of read succeeds in this step.
ReadTakes == rd.pc \in {"try", "retry"} /\ rd'.pc = "done" /\ rd'.result = "Ok"

OwnClock == IF clockid = CLOCK_REALTIME THEN mono + BootEpoch ELSE mono

\* Nanoseconds of a timespec.
Nanos(ts) == ts.tv_sec * NANOS_PER_SEC + ts.tv_nsec

\* C6: whatever the state a caller finds, set_time(flags, new_value) leaves
\* interval = new_value.it_interval, and next_expiration = None for a zero
\* it_value, it_value itself when bit 0 of flags is set, and now + it_value on
\* the timer's own clock when it is clear.
C6_ArmState ==
    arm.pc = "idle" =>
    \A flags \in FlagValues, iv \in Timespecs, v \in Timespecs :
        LET after == set_time_state(flags, [it_interval |-> iv, it_value |-> v])
        IN /\ after.interval = Nanos(iv)
           /\ Nanos(v) = 0 => after.next_expiration = None
           /\ (Nanos(v) # 0 /\ flags % 2 = 1) => after.next_expiration = Nanos(v)
           /\ (Nanos(v) # 0 /\ flags % 2 = 0)
                 => after.next_expiration = OwnClock + Nanos(v)

\* C6 witness: a realtime timer armed with a relative value: its deadline is
\* later than every absolute value a caller passes, and ahead of the clock.
C6_ArmedRelative ==
    /\ clockid = CLOCK_REALTIME
    /\ state.next_expiration > MaxDur
    /\ state.next_expiration > OwnClock
    /\ state.ticks = 0 /\ state.interval = 0

\* C7: the old value set_time reports is taken from the state this very step
\* then replaces: all zero for a disarmed timer, else the time left to the
\* previous deadline (zero once it has passed) and the previous interval.
C7_OldValueSnapshot ==
    [][(arm.pc = "idle" /\ arm'.pc = "return")
          => /\ state.next_expiration = None => arm'.old = ZeroItimerspec
             /\ state.next_expiration # None
                   => /\ Nanos(arm'.old.it_value) =
                            (IF state.next_expiration > OwnClock
                             THEN state.next_expiration - OwnClock ELSE 0)
                      /\ Nanos(arm'.old.it_interval) = state.interval
                      /\ arm'.old.it_value.tv_nsec < NANOS_PER_SEC
                      /\ arm'.old.it_interval.tv_nsec < NANOS_PER_SEC]_vars

\* C7 witness: set_time reports time left and an interval of the timer it re-arms.
C7_OldOfArmedTimer ==
    /\ arm.pc = "return"
    /\ Nanos(arm.old.it_value) > 0
    /\ Nanos(arm.old.it_interval) > 0

\* The read is inside poll_io: it has neither been refused nor ended.
InRead == rd.pc \in {"try", "register", "retry", "pending"}

\* The reader takes a step of its read.
ReadStep == rd' # rd /\ InRead

\* C9: with no tick pending, a non-blocking read ends with WouldBlock and
\* leaves the state as it is; a blocking read does not end, never ends with
\* WouldBlock, and a disarmed timer records no tick that could end it.
C9_ReadOfZeroTicks ==
    /\ [](rd.pc = "done" /\ rd.result = "WouldBlock" => rd.nb)
    /\ [][/\ (ReadStep /\ rd.pc = "try" /\ rd.nb /\ state.ticks = 0)
             => /\ rd'.pc = "done" /\ rd'.result = "WouldBlock"
                /\ state' = state
          /\ (InRead /\ ~rd.nb /\ state.ticks = 0) => rd'.pc # "done"
          /\ state.next_expiration = None => state'.ticks <= state.ticks]_vars

\* C9 witness: a blocking read is suspended on a disarmed timer with no tick.
C9_BlockedOnDisarmed ==
    /\ rd.pc = "pending" /\ ~rd.woken
    /\ state.next_expiration = None /\ state.ticks = 0

\* C10: the timer reports IN exactly when ticks > 0; a step that takes ticks
\* from 0 to non-zero wakes the registered reader; and a reader suspended in
\* read while ticks are pending has been woken, so that its read goes on.
C10_ReadableIffTicks ==
    /\ []("IN" \in poll(state) <=> state.ticks > 0)
    /\ [](rd.pc = "pending" /\ state.ticks > 0 => rd.woken)
    /\ [][(state.ticks = 0 /\ state'.ticks > 0 /\ rd.registered)
             => rd'.woken /\ ~rd'.registered]_vars

\* A read that is inside poll_io while ticks are pending returns (FairSpec).
BlockedReaderReturns == (InRead /\ state.ticks > 0) ~> rd.pc = "done"

\* C10 witness: a firing has woken the reader suspended in read.
C10_WokenByFiring == rd.pc = "pending" /\ rd.woken /\ state.ticks > 0

\* C11: get_time leaves ticks, interval and next_expiration as they are and
\* reports the time left to the deadline (zero when disarmed or passed) with
\* the stored interval; asked right after a relative one-shot arm of D > 0 it
\* reports a time left in (0, D] and a zero interval.
C11_QueryReports ==
    /\ [][(arm.pc = "idle" /\ arm'.pc = "gettime_return")
             => /\ state' = state
                /\ Nanos(arm'.old.it_value) =
                      (IF state.next_expiration # None
                          /\ state.next_expiration > OwnClock
                       THEN state.next_expiration - OwnClock ELSE 0)
                /\ Nanos(arm'.old.it_interval) = state.interval]_vars
    /\ [](arm.pc = "idle" => \A v \in Timespecs :
            Nanos(v) > 0 =>
              LET after == set_time_state(0, [it_interval |-> ZeroTimespec,
                                              it_value |-> v])
                  out == curr_value_of(after, current_time)
              IN /\ Nanos(out.it_value) > 0
                 /\ Nanos(out.it_value) <= Nanos(v)
                 /\ Nanos(out.it_interval) = 0)

\* C11 witness: a query of an armed one-shot timer reports time left and a
\* zero interval, with expirations pending that the query left alone.
C11_QueriedArmed ==
    /\ arm.pc = "gettime_return"
    /\ Nanos(arm.old.it_value) > 0 /\ Nanos(arm.old.it_interval) = 0
    /\ state.ticks > 0

\* C12: a read whose destination has room for fewer than 8 bytes ends with
\* InvalidInput at once, in every state and in both modes: it never enters
\* poll_io and the step leaves the timer state, ticks included, as it is.
C12_ShortReadRefused ==
    /\ [](InRead => rd.len >= 8)
    /\ []((rd.pc = "done" /\ rd.len < 8) => rd.result = "InvalidInput")
    /\ [][(rd.pc = "idle" /\ rd' # rd /\ rd'.len < 8)
             => rd'.pc = "done" /\ state' = state]_vars

\* C12 witness: a short read was refused while expirations are pending, on a
\* blocking timer.
C12_RefusedWithTicks ==
    /\ rd.pc = "done" /\ rd.result = "InvalidInput" /\ rd.len < 8
    /\ state.ticks > 0 /\ ~non_blocking

\* The caller's set of a kind as do_select loaded it, and as user memory has it.
InSet(kind) ==
    IF kind = "IN" THEN sel.readfds_in
    ELSE IF kind = "OUT" THEN sel.writefds_in ELSE sel.exceptfds_in
UserSet(u, kind) ==
    IF kind = "IN" THEN u.readfds
    ELSE IF kind = "OUT" THEN u.writefds ELSE u.exceptfds

\* The blocked mask of the calling task before the call.
PreCallMask == Sigs

\* do_select writes its output sets and returns a count in this step.
OutputStep == sel.pc = "output" /\ sel'.pc = "done"

\* C13: in the sets do_select writes back, the bit of (fd, kind) is set only
\* if fd < nfds, the bit was set in the caller's set of that kind and the
\* object reported that kind at the final poll; after a positive count of the
\* wait every such bit is set; and the count returned is the number of
\* descriptors with a bit in some output set.
C13_OutputSets ==
    [][OutputStep =>
         /\ \A kind \in Kinds :
              LET written == UserSet(user', kind).bits
                  satisfied == {fd \in Fds : /\ fd < sel.nfds
                                             /\ fd \in InSet(kind).bits
                                             /\ kind \in ready[fd]}
              IN /\ written \subseteq satisfied
                 /\ sel.ready_count.val > 0 => written = satisfied
                 /\ UserSet(user', kind).null = InSet(kind).null
         /\ sel'.result =
              Ok(Cardinality({fd \in Fds :
                    \E kind \in Kinds : fd \in UserSet(user', kind).bits}))]_vars

\* C13 witness: write interest in descriptors 0 and 1, only 1 writable: the
\* call returned 1 with only the bit of 1 in writefds.
C13_OnlySecondWritable ==
    /\ sel.pc = "done" /\ sel.result = Ok(1)
    /\ sel.writefds_in.bits = {0, 1}
    /\ user.writefds = FdSetOf({1})
    /\ user.readfds.bits = {} /\ user.exceptfds.bits = {}
    /\ sel.timeout = 0

\* The wait of do_select ends in this step.
WaitEnds == sel.pc \in {"try", "register", "retry", "pending"} /\ sel'.pc = "exit"

\* C14: the wait ends with a positive count only when a candidate reports its
\* interest, and with 0 only when a timeout was given and has elapsed since
\* the wait began; a call whose wait ended with 0 returns 0, not an error,
\* and every set the caller supplied is then all zero.
C14_TimeoutClearsSets ==
    /\ [][WaitEnds =>
            /\ sel'.ready_count.val > 0 => ready_candidates(sel.fds, ready) > 0
            /\ sel'.ready_count = Ok(0)
                  => /\ sel.timeout # None
                     /\ wall_time >= sel.entered + sel.timeout
                     /\ ready_candidates(sel.fds, ready) = 0]_vars
    /\ []((sel.pc = "done" /\ sel.ready_count = Ok(0))
            => /\ sel.result = Ok(0)
               /\ \A kind \in Kinds :
                     ~InSet(kind).null => UserSet(user, kind) = FdSetOf({}))

\* C14 witness: nothing was ready, the timeout of 1 elapsed, the call returned
\* 0 and the interest the caller had passed is cleared.
C14_TimedOut ==
    /\ sel.pc = "done" /\ sel.result = Ok(0) /\ sel.timeout = 1
    /\ sel.readfds_in.bits # {} /\ sel.writefds_in.bits # {}
    /\ user.readfds = FdSetOf({}) /\ user.writefds = FdSetOf({})
    /\ wall_time >= sel.entered + 1

\* The descriptors below nfds with a bit in some set the caller passed.
Requested ==
    {fd \in Fds : fd < sel.nfds /\ \E kind \in Kinds : fd \in InSet(kind).bits}

\* C15: a bit at a position >= nfds is never interpreted: the descriptor is
\* not a candidate (not polled, not waited on, not counted), its missing from
\* the table is no BadFileDescriptor, and its bit is clear in every set
\* written back.
C15_BeyondNfdsIgnored ==
    /\ \A i \in 1..Len(sel.fds) : sel.fds[i].f < sel.nfds
    /\ sel.result = Err("BadFileDescriptor")
          => \E fd \in Requested : fd \notin fd_table
    /\ "store" \in sel.done
          => \A kind \in Kinds : \A fd \in UserSet(user, kind).bits : fd < sel.nfds
    /\ sel.result.val <= Cardinality(Requested)

\* C15 witness: nfds = 1, the caller's readfds has the bit of descriptor 1,
\* whose object reports IN: the call returned with that bit clear.
C15_ReadyBeyondNfds ==
    /\ sel.pc = "done" /\ sel.result.err = "Ok" /\ sel.nfds = 1
    /\ 1 \in sel.readfds_in.bits /\ "IN" \in ready[1]
    /\ 1 \notin user.readfds.bits

\* C16: when a descriptor below nfds with a bit in some set does not resolve,
\* the call as a whole ends with BadFileDescriptor once the table has been
\* consulted: no wait was started, the mask is not replaced, no set of the
\* caller is written, no count is returned.
C16_MissAbortsCall ==
    ("lookup" \in sel.done /\ \E fd \in Requested : fd \notin fd_table)
       => /\ sel.pc = "done"
          /\ sel.result = Err("BadFileDescriptor")
          /\ sel.done \cap {"wait", "mask", "store"} = {}
          /\ blocked = PreCallMask
          /\ \A kind \in Kinds : UserSet(user, kind) = InSet(kind)

\* C16 witness: descriptor 1 does not resolve while descriptor 0 is ready for
\* the read the caller asked of it: the call failed and readfds is as passed.
C16_MissBesideReady ==
    /\ sel.result = Err("BadFileDescriptor")
    /\ 0 \in sel.read_set /\ "IN" \in ready[0]
    /\ 1 \notin fd_table
    /\ user.readfds = sel.readfds_in


\* The pcs at which the closure handed to with_replacen_blocked is running or
\* has just ended without the mask having been put back yet.
InsideWait == sel.pc \in {"try", "register", "retry", "pending", "exit"}

\* C17: when a signal-mask override is supplied the blocked mask of the task
\* is the override during the wait and only then; outside the wait, and so
\* when the call has returned by whichever way (ready, timeout, interruption,
\* error), it is the pre-call mask; and a call that ended with Interrupted was
\* interrupted by a pending signal that only the override left unblocked.
C17_MaskRestored ==
    /\ ~InsideWait => blocked = PreCallMask
    /\ InsideWait /\ ~sel.sigmask.null => blocked = sel.sigmask.set
    /\ InsideWait /\ sel.sigmask.null => blocked = PreCallMask
    /\ sel.ready_count = Err("Interrupted") =>
          /\ ~sel.sigmask.null
          /\ \E sig \in sigpending : sig \in PreCallMask /\ sig \notin sel.sigmask.set
    /\ sel.pc = "done" /\ sel.ready_count = Err("Interrupted") =>
          sel.result = Err("Interrupted") /\ "store" \notin sel.done

\* C17 witness: a call without timeout and with nothing ready has returned
\* Interrupted, and the mask is the pre-call one again.
C17_InterruptedAndRestored ==
    /\ sel.pc = "done"
    /\ sel.result = Err("Interrupted")
    /\ sel.timeout = None
    /\ ready_candidates(sel.fds, ready) = 0
    /\ "mask" \in sel.done
    /\ blocked = PreCallMask


\* The arguments of the call in progress fail the validation of lines 79-88.
InvalidArguments ==
    /\ sel.pc # "idle"
    /\ \/ sel.nfds > FD_SETSIZE
       \/ ~sel.sigmask.null /\ ~check_sigset_size(sel.sigmask)

\* C18: a call with nfds above the capacity of the bitmap, or with an override
\* of the wrong declared size, is over with InvalidInput and has had no
\* effect: no set of the caller was read or written, the descriptor table was
\* not consulted and its lock not taken, the mask was not replaced and
\* nothing was waited for.
C18_ValidationFirst ==
    InvalidArguments =>
        /\ sel.pc = "done"
        /\ sel.result = Err("InvalidInput")
        /\ sel.done = {}
        /\ sel.readfds_in = NullFdSet /\ sel.writefds_in = NullFdSet
        /\ sel.exceptfds_in = NullFdSet
        /\ sel.fds = <<>>
        /\ sel.ready_count = NoResult
        /\ sel.old_blocked = NoMask
        /\ blocked = PreCallMask
        /\ held = {}

\* C18 witness: nfds is within the capacity, the size of the override is
\* wrong, descriptor 0 is requested and its object is readable, and the call
\* has failed.
C18_BadSizeRefused ==
    /\ sel.pc = "done"
    /\ sel.nfds = 1
    /\ ~sel.sigmask.null /\ ~sel.sigmask.size_ok
    /\ sel.result = Err("InvalidInput")
    /\ 0 \in user.readfds.bits
    /\ "IN" \in ready[0]


\* A step in which the closure of lines 134-144 is run.
ClosureRuns ==
    /\ sel.pc \in {"try", "retry"}
    /\ sel'.pc # sel.pc
    /\ sel'.ready_count # Err("Interrupted")

\* C19: the wait resolves as soon as a candidate reports its interest: every
\* run of the closure that finds a candidate ready ends the wait with the
\* number of ready candidates, whatever the timeout (zero and none included)
\* and whether or not the deadline has passed; and the task is never left
\* suspended unnotified while a candidate is ready.
C19_ResolvesWhenReady ==
    /\ [][ClosureRuns /\ ready_candidates(sel.fds, ready) > 0 =>
             /\ sel'.pc = "exit"
             /\ sel'.ready_count = Ok(ready_candidates(sel.fds, ready))]_vars
    /\ [](sel.pc = "pending" /\ ready_candidates(sel.fds, ready) > 0 => sel.woken)

\* C19 witness: a call without timeout is suspended, a candidate has become
\* ready and has woken the task, and the clock has not moved since the wait
\* began.
C19_WokenWithoutTimeout ==
    /\ sel.pc = "pending"
    /\ sel.timeout = None
    /\ sel.woken
    /\ ready_candidates(sel.fds, ready) > 0
    /\ wall_time = sel.entered


\* A task holds a lock.
holds(task, l) == <<task, l>> \in held

\* C20: no task is suspended holding a lock: the timer's background task does
\* not hold the state lock while it awaits its listener, with or without a
\* deadline, nor does a reader while it is blocked; do_select does not hold
\* the read lock of the descriptor table while it is suspended in its wait,
\* nor once it has failed with BadFileDescriptor.
C20_NoLockAcrossSuspension ==
    /\ loop.pc \in {"sleep", "idle"} => ~holds("timer_loop", "state")
    /\ rd.pc = "pending" => ~holds("read", "state")
    /\ sel.pc = "pending" => ~holds("do_select", "FD_TABLE")
    /\ sel.result = Err("BadFileDescriptor") => ~holds("do_select", "FD_TABLE")

\* C20 witness: do_select has looked its candidates up under the lock and is
\* suspended in its wait with nothing ready.
C20_SuspendedAfterLookup ==
    /\ sel.pc = "pending"
    /\ "lookup" \in sel.done
    /\ Len(sel.fds) > 0
    /\ ~sel.woken
    /\ held = {}


\* What the object taken at the lookup for the i-th candidate reports of the
\* candidate's interest, whatever the table says now.
SnapshotReports(i) == ready[sel.fds[i].f] \cap sel.fds[i].events

\* The descriptors whose snapshot object reports a kind.
SnapshotSet(kind) ==
    {sel.fd_indices[i] : i \in {j \in 1..Len(sel.fds) : kind \in SnapshotReports(j)}}

\* C21: after the lookup the call works on the objects it took under the
\* lock: BadFileDescriptor arises only in the lookup step itself, from a
\* descriptor missing in the table as it is then; with descriptors closed
\* meanwhile the task is never left suspended unnotified beside a ready
\* snapshot object; and the sets written after a positive count are the
\* readiness of the snapshot objects under the descriptor numbers of the
\* lookup, with their number as the result.
C21_WorksOnSnapshot ==
    /\ [][sel'.result = Err("BadFileDescriptor") /\ sel.result # sel'.result =>
             /\ sel.pc = "lookup"
             /\ \E fd \in sel.read_set \cup sel.write_set \cup sel.except_set :
                   fd \notin fd_table]_vars
    /\ [](sel.pc = "pending" /\ (\E i \in 1..Len(sel.fds) : SnapshotReports(i) # {})
             => sel.woken)
    /\ [][OutputStep /\ sel.ready_count.val > 0 =>
             /\ \A kind \in Kinds :
                   ~UserSet(user, kind).null =>
                       UserSet(user', kind).bits = SnapshotSet(kind)
             /\ sel'.result =
                   Ok(Cardinality({i \in 1..Len(sel.fds) : SnapshotReports(i) # {}}))]_vars

\* C21 witness: descriptor 0 was looked up, has been closed since, and the
\* call has returned 1 with descriptor 0 set in readfds.
C21_ClosedYetReported ==
    /\ sel.pc = "done"
    /\ sel.fd_indices = <<0>>
    /\ 0 \notin fd_table
    /\ sel.result = Ok(1)
    /\ user.readfds.bits = {0}


\* No descriptor resolves to the timer and no call on it is in progress:
\* nothing can arm, disarm or read it any more.
AllHandlesClosed == fd_table = {} /\ arm.pc = "idle" /\ rd.pc \in {"idle", "done"}

\* The timer is never reclaimed, and the background task is always at one of
\* the points of its loop: it has no way out of it.
TimerStaysAlive ==
    /\ strong_count >= 1
    /\ loop.pc \in {"read_target", "read_clock", "fire", "listen", "sleep",
                    "listen_idle", "idle"}

\* C22: the background task holds the timer alive and keeps looping after
\* every handle has been closed, and keeps firing an armed periodic timer:
\* with all handles closed the task is not stopped for good while a deadline
\* of the periodic timer has been reached and is still to be recorded.
C22_RunsOnAfterClose ==
    /\ TimerStaysAlive
    /\ ~(AllHandlesClosed /\ PeriodicRelative /\ Due /\ Parked)


\* A read that does not continue the one before it: the first read of the
\* state starting beyond the first four pages, or a later read starting more
\* than RA_SEQ_GAP_PAGES pages away from where the last one ended.
NonSequentialRead(read_start) ==
    IF ra.st.prev_end = 0
    THEN read_start >= 4 * PAGE_SIZE
    ELSE \/ read_start > ra.st.prev_end + RA_SEQ_GAP_PAGES * PAGE_SIZE
         \/ read_start + RA_SEQ_GAP_PAGES * PAGE_SIZE < ra.st.prev_end

\* C23: after any sequence of calls ra_size is 0 or between RA_INIT_PAGES and
\* RA_MAX_PAGES; and whatever read of non-zero length comes next, a Sync
\* action is RA_INIT_PAGES pages from the page of the read, an Async action
\* is min(2 * ra_size, RA_MAX_PAGES) pages from the end of the window before
\* it, each becoming the window, and a non-sequential read gets no action
\* and leaves ra_size = 0 and seq_count = 0.
C23_WindowBounds ==
    /\ ra.st.ra_size = 0
          \/ (ra.st.ra_size >= RA_INIT_PAGES /\ ra.st.ra_size <= RA_MAX_PAGES)
    /\ \A read_start \in ReadStarts, read_len \in ReadLens \ {0}, cache_hit \in BOOLEAN :
          LET d == readahead_decide(ra.st, read_start, read_len, cache_hit)
          IN /\ d.action = "Sync" =>
                   /\ d.num_pages = 4
                   /\ d.start_page * PAGE_SIZE <= read_start
                   /\ read_start < (d.start_page + 1) * PAGE_SIZE
                   /\ d.st.ra_size = 4
                   /\ d.st.ra_start = d.start_page * PAGE_SIZE
             /\ d.action = "Async" =>
                   /\ ra.st.ra_size > 0
                   /\ d.num_pages = min(2 * ra.st.ra_size, 64)
                   /\ d.start_page * PAGE_SIZE
                         = ra.st.ra_start + ra.st.ra_size * PAGE_SIZE
                   /\ d.st.ra_size = d.num_pages
                   /\ d.st.ra_start = d.start_page * PAGE_SIZE
             /\ NonSequentialRead(read_start) =>
                   /\ d.action = "None"
                   /\ d.st.ra_size = 0
                   /\ d.st.seq_count = 0

\* C23 witness: the window has grown to RA_MAX_PAGES and the next Async
\* action, from the end of that window at page 124, is RA_MAX_PAGES again.
C23_CappedWindow ==
    /\ ra.action = "Async"
    /\ ra.start_page = 124
    /\ ra.num_pages = RA_MAX_PAGES
    /\ ra.st.ra_size = RA_MAX_PAGES

====
